---- MODULE Spec2Model ----
(***************************************************************************)
(* A model of src/KMeans/PCA_Cluster.cpp: the threshold selection of       *)
(* performSVD, the k-means loop of performPC_KMeans and                    *)
(* performFullK_MeansByClusters, the average-linkage merging of            *)
(* hierarchicalMerging (with setValue, getDistAtNodes, setLabel) and the   *)
(* finalization (relabeling, entropy, representatives) that the three      *)
(* clustering paths share.                                                 *)
(*                                                                         *)
(* Numbers.  Coordinates are integers.  A centroid is kept as the pair     *)
(* <<S, n>> of a coordinate sum and a count, standing for S/n.  A float    *)
(* that holds a Euclidean norm is kept as the square of the norm, an exact *)
(* fraction <<num, den>>; comparisons of norms are comparisons of these    *)
(* squares.  FLT_MIN, the smallest positive float, is the fraction with    *)
(* numerator 0: it is below every nonzero norm the bounded data produces,  *)
(* and it is never used as a divisor without the case split of RelChange.  *)
(* AHC linkage distances are fractions <<num, den>> of thousandths.        *)
(***************************************************************************)
EXTENDS Integers, Sequences, FiniteSets, TLC

VARIABLES
    variant,        \* what runs: "SVD" performSVD, "KM" a k-means function, "AHC" perform_AHC
    pc,             \* position in the running function
    data,           \* cArray / data: row index 0..Row-1 -> coordinate tuple
    Cluster,        \* the requested number of clusters
    openmp,         \* TRUE: built with OpenMP, the parallel regions run on several threads
    \* ---- performSVD
    energy,         \* squared norm of each column of coefficient, ranked
    svd_i,          \* loop variable i of the threshold loop
    tempSum,        \* running cumulative energy
    PC_Number,      \* output of performSVD
    cArrayCols,     \* number of columns given to cArray
    \* ---- k-means loop
    clusterCenter,  \* centroid rows, each <<S, n>>
    centerTemp,     \* provisional coordinate sums
    storage,        \* number of points per raw cluster
    neighborVec,    \* member list per raw cluster
    recorder,       \* raw cluster of each row
    todo,           \* iterations of the parallel assignment loop still to run
    moving,         \* displacement of the round (squared)
    before,         \* displacement of the previous round (squared)
    tag,            \* rounds completed
    \* ---- hierarchicalMerging
    distM,          \* reduced_dist_matrix, in thousandths
    nodeMap,        \* live node id -> element list
    dNodeVec,       \* candidate pairs
    poped,          \* the pair picked for the next merge
    index,          \* id of the next node
    merges,         \* merges performed
    nodeVec,        \* result nodes
    \* ---- finalization
    group,          \* relabeled id of each row
    totalNum,       \* size of each row's cluster
    closest,        \* emitted closest records <<index, label>>
    furthest,       \* emitted furthest records <<index, label>>
    entropy,        \* balanced entropy handed to writeReadme
    increasingOrder,\* raw cluster -> relabeled id
    runs,           \* how many times the finalization ran on this raw assignment
    firstRun        \* outputs as they were after the first finalization

inVars  == <<variant, data, Cluster, openmp>>
svdVars == <<energy, svd_i, tempSum, PC_Number, cArrayCols>>
kmVars  == <<clusterCenter, centerTemp, storage, neighborVec, recorder, todo,
             moving, before, tag>>
ahcVars == <<distM, nodeMap, dNodeVec, poped, index, merges, nodeVec>>
finVars == <<group, totalNum, closest, furthest, entropy, increasingOrder, runs, firstRun>>
vars    == <<pc, inVars, svdVars, kmVars, ahcVars, finVars>>

(***************************************************************************)
(* Bounds of the model                                                     *)
(***************************************************************************)
MaxColumn == 3
MaxEnergy == 3

(***************************************************************************)
(* Generic helpers                                                         *)
(***************************************************************************)
RECURSIVE SumSeq(_)
SumSeq(s) == IF s = <<>> THEN 0 ELSE Head(s) + SumSeq(Tail(s))

Prefix(s, n) == [k \in 1..n |-> s[k]]

Abs(x) == IF x < 0 THEN -x ELSE x

\* a value that was never written: whatever the stack held
UninitInt == -1..(MaxColumn + 1)

NoValue == <<>>

(***************************************************************************)
(* performSVD: the selection of PC_Number (lines 129-150)                  *)
(***************************************************************************)
TOR_1_Num == 999
TOR_1_Den == 1000

Column == Len(energy)

\* varianceSummation = coefficient.squaredNorm()
varianceSummation == SumSeq(energy)

\* tempSum > threshold, threshold = TOR_1 * varianceSummation
AboveThreshold(s) == s * TOR_1_Den > TOR_1_Num * varianceSummation

\* non-increasing sequences: the decomposition ranks the directions
RankedEnergies ==
    UNION { { e \in [1..c -> 0..MaxEnergy] : \A k \in 1..(c - 1) : e[k] >= e[k + 1] }
            : c \in 1..MaxColumn }

idleKm ==
    /\ clusterCenter = NoValue /\ centerTemp = NoValue /\ storage = NoValue
    /\ neighborVec = NoValue /\ recorder = NoValue /\ todo = {}
    /\ moving = NoValue /\ before = NoValue /\ tag = 0

idleAhc ==
    /\ distM = NoValue /\ nodeMap = NoValue /\ dNodeVec = NoValue /\ poped = NoValue
    /\ index = 0 /\ merges = 0 /\ nodeVec = NoValue

idleFin ==
    /\ group = NoValue /\ totalNum = NoValue /\ closest = <<>> /\ furthest = <<>>
    /\ entropy = NoValue /\ increasingOrder = NoValue /\ runs = 0 /\ firstRun = NoValue

InitSVD ==
    /\ variant = "SVD"
    /\ pc = "svd_loop"
    /\ data = NoValue
    /\ Cluster = 0
    /\ openmp = TRUE
    /\ energy \in RankedEnergies
    /\ svd_i = 0
    /\ tempSum = 0
    /\ PC_Number \in UninitInt          \* int PC_Number; declared, not initialized
    /\ cArrayCols = 0
    /\ idleKm /\ idleAhc /\ idleFin

\* the index PC_Number receives when the cumulative energy through direction i
\* exceeds the threshold (line 140)
SelectedNumber(i) == i

\* one iteration of the loop of lines 135-143
performSVD_Loop ==
    /\ pc = "svd_loop"
    /\ svd_i < Column
    /\ tempSum' = tempSum + energy[svd_i + 1]
    /\ IF AboveThreshold(tempSum')
          THEN /\ PC_Number' = SelectedNumber(svd_i)
               /\ svd_i' = svd_i
               /\ pc' = "svd_size"
          ELSE /\ PC_Number' = PC_Number
               /\ svd_i' = svd_i + 1
               /\ pc' = IF svd_i + 1 < Column THEN "svd_loop" ELSE "svd_size"
    /\ UNCHANGED <<inVars, energy, cArrayCols, kmVars, ahcVars, finVars>>

\* cArray = MatrixXf(Row, PC_Number) and the copy of the first PC_Number columns
performSVD_Truncate ==
    /\ pc = "svd_size"
    /\ cArrayCols' = PC_Number
    /\ pc' = "svd_done"
    /\ UNCHANGED <<inVars, energy, svd_i, tempSum, PC_Number, kmVars, ahcVars, finVars>>

NextSVD == performSVD_Loop \/ performSVD_Truncate

SpecSVD == InitSVD /\ [][NextSVD]_vars

\* cumulative energy of the first n directions
CumulativeEnergy(n) == SumSeq(Prefix(energy, n))

\* C3: when performSVD has sized cArray (for energies that are not all zero),
\* PC_Number is the smallest prefix length whose cumulative energy exceeds
\* 0.999 x the total energy, and cArray keeps exactly that many directions.
C3_EnergyProperty ==
    (pc = "svd_done" /\ varianceSummation > 0) =>
        /\ PC_Number \in 1..Column
        /\ AboveThreshold(CumulativeEnergy(PC_Number))
        /\ ~AboveThreshold(CumulativeEnergy(PC_Number - 1))
        /\ cArrayCols = PC_Number

\* a run of performSVD whose loop selected a direction (one dominant direction)
C3_Reached ==
    /\ pc = "svd_done"
    /\ energy = <<3, 0>>
    /\ PC_Number = 0

(***************************************************************************)
(* Arithmetic on coordinate tuples, centroids <<S, n>> and fractions       *)
(***************************************************************************)
MaxRow     == 3
MaxCoord   == 1
MaxCluster == 2

Row  == Cardinality(DOMAIN data)
Rows == 0..(Row - 1)
Clusters == 0..(Cluster - 1)
Dim  == Len(data[0])

VAdd(a, b) == [k \in 1..Len(a) |-> a[k] + b[k]]
VZero(d)   == [k \in 1..d |-> 0]

RECURSIVE GCD(_, _)
GCD(a, b) == IF b = 0 THEN a ELSE GCD(b, a % b)
LCM(a, b) == (a \div GCD(a, b)) * b

\* a fraction in lowest terms
Norm(f) == LET g == GCD(f[1], f[2]) IN IF g = 0 THEN f ELSE <<f[1] \div g, f[2] \div g>>

FracLt(f, g) == f[1] * g[2] < g[1] * f[2]
FracEq(f, g) == f[1] * g[2] = g[1] * f[2]

\* x * p < y * q for products that leave 32 bits: x * p as <<high, low>> in base 10000
MulHi(x, p) == (x \div 10000) * p + ((x % 10000) * p) \div 10000
MulLo(x, p) == ((x % 10000) * p) % 10000
MulLt(x, p, y, q) ==
    \/ MulHi(x, p) < MulHi(y, q)
    \/ MulHi(x, p) = MulHi(y, q) /\ MulLo(x, p) < MulLo(y, q)

\* the square of (centroid c - point p).norm()
DistSqToCenter(c, p) ==
    Norm(<<SumSeq([k \in 1..Len(p) |-> (c[2] * p[k] - c[1][k]) * (c[2] * p[k] - c[1][k])]),
           c[2] * c[2]>>)

\* the square of (centroid c - centroid d).norm()
CenterDistSq(c, d) ==
    LET l == LCM(c[2], d[2])
        a == l \div c[2]
        b == l \div d[2]
    IN Norm(<<SumSeq([k \in 1..Len(c[1]) |->
                        (a * c[1][k] - b * d[1][k]) * (a * c[1][k] - b * d[1][k])]),
              l * l>>)

(***************************************************************************)
(* The k-means loop: performPC_KMeans lines 213-284,                       *)
(* performFullK_MeansByClusters lines 571-640                              *)
(***************************************************************************)
FLT_MIN_SQ == <<0, 1>>
IsFltMin(m) == m[1] = 0

\* float moving = 1000
InitialMoving == <<1000000, 1>>

MaxRounds == 20

Points == { <<x>> : x \in 0..MaxCoord }

DataSets == UNION { [0..(r - 1) -> Points] : r \in 1..MaxRow }

\* the seeds Initialization hands back: positions in the data's bounding region
SeedSets(k) == [0..(k - 1) -> { <<p, 1>> : p \in Points }]

valueInitFin ==
    /\ closest = <<>> /\ furthest = <<>>
    /\ entropy = NoValue /\ increasingOrder = NoValue /\ runs = 0 /\ firstRun = NoValue

InitKM ==
    /\ variant = "KM"
    /\ pc = "reset"
    /\ data \in DataSets
    /\ Cluster \in 1..MaxCluster
    /\ openmp = TRUE
    /\ clusterCenter \in SeedSets(Cluster)
    /\ centerTemp = [c \in Clusters |-> VZero(Dim)]
    /\ storage = [c \in Clusters |-> 0]          \* overwritten by memset before any read
    /\ neighborVec = [c \in Clusters |-> <<>>]
    /\ recorder = [i \in Rows |-> 0]             \* std::vector<int> recorder(Row)
    /\ todo = {}
    /\ moving = InitialMoving
    /\ before = InitialMoving                    \* overwritten before any read
    /\ tag = 0
    /\ group = [i \in Rows |-> 0]
    /\ totalNum = [i \in Rows |-> 0]
    /\ valueInitFin
    /\ energy = NoValue /\ svd_i = 0 /\ tempSum = 0 /\ PC_Number = 0 /\ cArrayCols = 0
    /\ idleAhc

\* kmeans_Reset without the clear() of the member lists
kmeans_Reset_NoClear ==
    /\ pc = "reset"
    /\ before' = moving
    /\ storage' = [c \in Clusters |-> 0]
    /\ centerTemp' = [c \in Clusters |-> VZero(Dim)]
    /\ todo' = Rows
    /\ pc' = "assign"
    /\ UNCHANGED <<inVars, svdVars, clusterCenter, neighborVec, recorder, moving, tag,
                   ahcVars, finVars>>

\* top of the do-loop: before = moving, memset, Zero, clear (lines 230-239, 586-595)
kmeans_Reset ==
    /\ pc = "reset"
    /\ before' = moving
    /\ storage' = [c \in Clusters |-> 0]
    /\ centerTemp' = [c \in Clusters |-> VZero(Dim)]
    /\ neighborVec' = [c \in Clusters |-> <<>>]
    /\ todo' = Rows
    /\ pc' = "assign"
    /\ UNCHANGED <<inVars, svdVars, clusterCenter, recorder, moving, tag, ahcVars, finVars>>

\* the scan of lines 249-257 / 605-613: the first centroid at minimum distance
ClosestCenter(i) ==
    CHOOSE j \in Clusters :
        /\ \A k \in Clusters : k < j =>
               FracLt(DistSqToCenter(clusterCenter[j], data[i]),
                      DistSqToCenter(clusterCenter[k], data[i]))
        /\ \A k \in Clusters : k > j =>
               ~FracLt(DistSqToCenter(clusterCenter[k], data[i]),
                       DistSqToCenter(clusterCenter[j], data[i]))

\* kmeans_Assign with the += of the coordinate sum outside the critical section:
\* the addition starts from a zero row another thread has since added to
kmeans_Assign_LostUpdate(i) ==
    /\ pc = "assign"
    /\ i \in todo
    /\ openmp \/ \A k \in todo : i <= k
    /\ \E clusTemp \in {ClosestCenter(i)} :
         /\ storage' = [storage EXCEPT ![clusTemp] = @ + 1]
         /\ neighborVec' = [neighborVec EXCEPT ![clusTemp] = Append(@, i)]
         /\ recorder' = [recorder EXCEPT ![i] = clusTemp]
         /\ centerTemp' = [centerTemp EXCEPT ![clusTemp] = data[i]]
    /\ todo' = todo \ {i}
    /\ UNCHANGED <<pc, inVars, svdVars, clusterCenter, moving, before, tag, ahcVars, finVars>>

\* one iteration of the parallel loop with its critical section
\* (lines 244-266 / 600-622); the threads enter the section in any order,
\* a build without OpenMP runs the iterations in index order
kmeans_Assign(i) ==
    /\ pc = "assign"
    /\ i \in todo
    /\ openmp \/ \A k \in todo : i <= k
    /\ \E clusTemp \in {ClosestCenter(i)} :
         /\ storage' = [storage EXCEPT ![clusTemp] = @ + 1]
         /\ neighborVec' = [neighborVec EXCEPT ![clusTemp] = Append(@, i)]
         /\ recorder' = [recorder EXCEPT ![i] = clusTemp]
         /\ centerTemp' = [centerTemp EXCEPT ![clusTemp] = VAdd(@, data[i])]
    /\ todo' = todo \ {i}
    /\ UNCHANGED <<pc, inVars, svdVars, clusterCenter, moving, before, tag, ahcVars, finVars>>

\* m > 0.01 for a squared norm m
AboveSmall(m) == MulLt(m[2], 1, m[1], 10000)

\* abs(moving - before) / before >= 1.0e-2, on squared norms m and b:
\* m >= 1.01 b or m <= 0.99 b, that is m^2 >= 1.0201 b^2 or m^2 <= 0.9801 b^2.
\* With before = FLT_MIN the quotient is 0 for moving = FLT_MIN and huge
\* otherwise; with moving = FLT_MIN and a larger before it is 1.
RelChangeLarge(m, b) ==
    IF IsFltMin(b) THEN ~IsFltMin(m)
    ELSE IF IsFltMin(m) THEN TRUE
    ELSE LET a == m[1] * b[2]
             c == b[1] * m[2]
         IN \/ ~MulLt(a, 10000, c, 10201)
            \/ ~MulLt(c, 9801, a, 10000)

\* the loop condition without its test of moving > 0.01
LoopContinues_NoSmall(m, b, t) == RelChangeLarge(m, b) /\ t < 20

\* the condition of the do-while (lines 284, 640)
LoopContinues(m, b, t) == RelChangeLarge(m, b) /\ t < MaxRounds /\ AboveSmall(m)

FracMax(f, g) == IF FracLt(f, g) THEN g ELSE f

\* the displacement of cluster c in this round (lines 276-277 / 632-633)
Displacement(c) == CenterDistSq(<<centerTemp[c], storage[c]>>, clusterCenter[c])

\* the largest displacement of the clusters in the set cs, never below FLT_MIN
RECURSIVE MaxDisplacement(_)
MaxDisplacement(cs) ==
    IF cs = {} THEN FLT_MIN_SQ
    ELSE LET c == CHOOSE x \in cs : TRUE
         IN FracMax(MaxDisplacement(cs \ {c}), Displacement(c))

\* tempMoving is one variable shared by the threads of the reduction loop: the
\* comparison of line 279 / 635 reads the displacement some thread wrote last,
\* and moving ends as the largest of the values read (never below FLT_MIN).
\* Run by one thread, the loop leaves the largest displacement.
MovingOutcomes ==
    LET moved == { c \in Clusters : storage[c] > 0 } IN
    IF openmp /\ moved # {}
       THEN { FracMax(FLT_MIN_SQ, Displacement(c)) : c \in moved }
       ELSE { MaxDisplacement(moved) }

\* kmeans_Update without the test storage[i]>0: a cluster that received no
\* point takes its (zero) provisional row
kmeans_Update_NoFrame ==
    /\ pc = "assign"
    /\ todo = {}
    /\ clusterCenter' = [c \in Clusters |->
                            <<centerTemp[c], IF storage[c] > 0 THEN storage[c] ELSE 1>>]
    /\ \E m \in MovingOutcomes : moving' = m
    /\ tag' = tag + 1
    /\ pc' = IF LoopContinues(moving', before, tag') THEN "reset" ELSE "finalize"
    /\ UNCHANGED <<inVars, svdVars, centerTemp, storage, neighborVec, recorder, todo,
                   before, ahcVars, finVars>>

\* moving = FLT_MIN, the reduction loop and the loop test (lines 269-284 / 624-640)
kmeans_Update ==
    /\ pc = "assign"
    /\ todo = {}
    /\ clusterCenter' = [c \in Clusters |->
                            IF storage[c] > 0 THEN <<centerTemp[c], storage[c]>>
                                              ELSE clusterCenter[c]]
    /\ \E m \in MovingOutcomes : moving' = m
    /\ tag' = tag + 1
    /\ pc' = IF LoopContinues(moving', before, tag') THEN "reset" ELSE "finalize"
    /\ UNCHANGED <<inVars, svdVars, centerTemp, storage, neighborVec, recorder, todo,
                   before, ahcVars, finVars>>

NextKMLoop == kmeans_Reset \/ (\E i \in Rows : kmeans_Assign(i)) \/ kmeans_Update


(***************************************************************************)
(* Finalization: relabeling by size, balanced entropy, representatives     *)
(* performPC_KMeans lines 293-361, performFullK_MeansByClusters lines      *)
(* 644-722, perform_AHC lines 893-966                                      *)
(***************************************************************************)
NonEmpty == { c \in Clusters : storage[c] > 0 }

\* groupNo (nonZero in performFullK_MeansByClusters)
groupNo == Cardinality(NonEmpty)

\* the rank with the order of the sizes reversed
GroupMapRank_Descending(c) ==
    Cardinality({ d \in NonEmpty : \/ storage[d] > storage[c]
                                   \/ storage[d] = storage[c] /\ d < c })

\* position of raw cluster c among the non-empty ones in the iteration order of
\* groupMap, a multimap keyed by size: equal sizes stay in insertion order
GroupMapRank(c) ==
    Cardinality({ d \in NonEmpty : \/ storage[d] < storage[c]
                                   \/ storage[d] = storage[c] /\ d < c })

\* the entry of an empty cluster is never written, and never read
Unwritten == -1

IncreasingOrderOf(c) == IF storage[c] > 0 THEN GroupMapRank(c) ELSE Unwritten

\* log2f in thousandths, for the counts the model reaches
Log2Milli(n) ==
    CASE n = 1 -> 0    [] n = 2 -> 1000 [] n = 3 -> 1585 [] n = 4 -> 2000
      [] n = 5 -> 2322 [] n = 6 -> 2585 [] n = 7 -> 2807 [] n = 8 -> 3000

\* Row * 1000 * (sum of probability * log2f(probability)), lines 299-307
EntropySum ==
    SumSeq([k \in 1..Cluster |->
              IF storage[k - 1] > 0
                 THEN storage[k - 1] * (Log2Milli(storage[k - 1]) - Log2Milli(Row))
                 ELSE 0])

\* entropy = -entropy / log2f(groupNo): a float division, so a zero divisor
\* gives NaN (0/0) or an infinity
BalancedEntropy ==
    LET l == Log2Milli(groupNo) IN
    IF l = 0 THEN (IF EntropySum = 0 THEN <<"nan", 0, 0>> ELSE <<"inf", 0, 0>>)
    ELSE LET f == Norm(<<-EntropySum, Row * l>>) IN <<"num", f[1], f[2]>>

\* perform_AHC copies centroid row i to row increasingOrder[i] of clusterCenter
\* (lines 929-933) and then reads row i; the k-means variants read row i as it is
CenterRead(i) ==
    IF variant = "AHC"
       THEN clusterCenter[CHOOSE c \in Clusters : IncreasingOrderOf(c) = i]
       ELSE clusterCenter[i]

\* the scan of one member list (lines 342-357) for the member lists given:
\* st = <<shortestSet, shortest, shortestIndex, farDist, fartestIndex>>; shortest
\* starts at FLT_MAX (not set), farDist at FLT_MIN, the two indices at what the
\* previous cluster left
RECURSIVE ScanMembersIn(_, _, _, _, _)
ScanMembersIn(lists, i, j, n, st) ==
    IF j > n THEN st
    ELSE LET tempIndex == lists[i][j]
             toCenter  == DistSqToCenter(CenterRead(i), data[tempIndex])
             nearer    == ~st[1] \/ FracLt(toCenter, st[2])
             further   == FracLt(st[4], toCenter)
         IN ScanMembersIn(lists, i, j + 1, n,
                <<TRUE,
                  IF nearer THEN toCenter ELSE st[2],
                  IF nearer THEN tempIndex ELSE st[3],
                  IF further THEN toCenter ELSE st[4],
                  IF further THEN tempIndex ELSE st[5]>>)

ScanMembers(i, j, n, st) == ScanMembersIn(neighborVec, i, j, n, st)

\* the loop over the clusters (lines 334-361): acc = <<closest records,
\* furthest records, shortestIndex, fartestIndex>>
RECURSIVE RepresentativesIn(_, _, _)
RepresentativesIn(lists, i, acc) ==
    IF i >= Cluster THEN acc
    ELSE IF storage[i] > 0
         THEN LET st == ScanMembersIn(lists, i, 1, storage[i],
                                      <<FALSE, FLT_MIN_SQ, acc[3], FLT_MIN_SQ, acc[4]>>)
              IN RepresentativesIn(lists, i + 1,
                    <<Append(acc[1], <<st[3], IncreasingOrderOf(i)>>),
                      Append(acc[2], <<st[5], IncreasingOrderOf(i)>>),
                      st[3], st[5]>>)
         ELSE RepresentativesIn(lists, i + 1, acc)

Representatives(i, acc) == RepresentativesIn(neighborVec, i, acc)

\* shortestIndex = 0, fartestIndex = 0 before the loop; the records are pushed
\* to the back of the containers the caller passed
Emitted == Representatives(0, <<closest, furthest, 0, 0>>)

FinalizeBody ==
    /\ increasingOrder' = [c \in Clusters |-> IncreasingOrderOf(c)]
    /\ entropy' = BalancedEntropy
    /\ group' = [i \in Rows |-> IncreasingOrderOf(recorder[i])]
    /\ totalNum' = [i \in Rows |-> storage[recorder[i]]]
    /\ closest' = Emitted[1]
    /\ furthest' = Emitted[2]
    /\ runs' = runs + 1
    /\ firstRun' = IF runs = 0 THEN <<group', closest', furthest'>> ELSE firstRun
    /\ pc' = "done"
    /\ UNCHANGED <<inVars, svdVars, kmVars, ahcVars>>

\* the code after the clustering loop
Finalize ==
    /\ pc = "finalize"
    /\ FinalizeBody

\* the same code run once more on the same raw assignment and the same output
\* containers
FinalizeAgain ==
    /\ pc = "done"
    /\ runs = 1
    /\ FinalizeBody

NextKM == NextKMLoop \/ Finalize \/ FinalizeAgain

(***************************************************************************)
(* AHC: perform_AHC lines 851-887, setValue, hierarchicalMerging,          *)
(* getDistAtNodes, setLabel                                                *)
(***************************************************************************)
MaxRowAHC   == 3
MaxCoordAHC == 2

AHCDataSets == UNION { [0..(r - 1) -> { <<x>> : x \in 0..MaxCoordAHC }] : r \in 2..MaxRowAHC }

RECURSIVE SqrtSearch(_, _, _)
SqrtSearch(x, lo, hi) ==
    IF lo >= hi THEN lo
    ELSE LET mid == (lo + hi + 1) \div 2
         IN IF mid * mid <= x THEN SqrtSearch(x, mid, hi) ELSE SqrtSearch(x, lo, mid - 1)

\* the integer part of the square root
ISqrt(x) == SqrtSearch(x, 0, 46340)

\* (cArray.row(i) - cArray.row(j)).norm(), in thousandths (lines 860-870)
DistMilli(p, q) ==
    ISqrt(1000000 * SumSeq([k \in 1..Len(p) |-> (p[k] - q[k]) * (p[k] - q[k])]))

InitAHC ==
    /\ variant = "AHC"
    /\ pc = "ahc_setvalue"
    /\ data \in AHCDataSets
    /\ Cluster \in 1..Row
    /\ openmp \in BOOLEAN
    /\ idleKm /\ idleAhc
    /\ group = [i \in Rows |-> 0]
    /\ totalNum = [i \in Rows |-> 0]
    /\ valueInitFin
    /\ energy = NoValue /\ svd_i = 0 /\ tempSum = 0 /\ PC_Number = 0 /\ cArrayCols = 0

\* the pairs (i, j), i < j, in the order of the two loops of setValue
RECURSIVE PairsFrom(_, _, _, _)
PairsFrom(M, i, j, r) ==
    IF i >= r - 1 THEN <<>>
    ELSE IF j >= r THEN PairsFrom(M, i + 1, i + 2, r)
    ELSE <<[first |-> i, second |-> j, distance |-> <<M[i, j], 1>>]>>
         \o PairsFrom(M, i, j + 1, r)

\* index of the first entry whose distance is below every earlier one
\* (lines 1046-1055, 1095-1099, 1111-1115): 0 stands for target = -1
RECURSIVE FirstMin(_, _, _)
FirstMin(vec, k, best) ==
    IF k > Len(vec) THEN best
    ELSE IF best = 0 \/ FracLt(vec[k].distance, vec[best].distance)
         THEN FirstMin(vec, k + 1, k)
         ELSE FirstMin(vec, k + 1, best)

\* what a read of vec[target] with target = -1 leaves in poped
Garbage == [first |-> -1, second |-> -1, distance |-> <<0, 1>>]

\* reduced_dist_matrix and setValue (lines 858-872, 1187-1204)
perform_AHC_setValue ==
    /\ pc = "ahc_setvalue"
    /\ distM' = [i \in Rows, j \in Rows |-> IF i = j THEN 0 ELSE DistMilli(data[i], data[j])]
    /\ dNodeVec' = PairsFrom(distM', 0, 1, Row)
    /\ pc' = "ahc_begin"
    /\ UNCHANGED <<inVars, svdVars, kmVars, nodeMap, poped, index, merges, nodeVec, finVars>>

\* the singleton nodes and the first minimum (lines 1036-1058)
hierarchicalMerging_Begin ==
    /\ pc = "ahc_begin"
    /\ nodeMap' = [i \in Rows |-> <<i>>]
    /\ poped' = dNodeVec[FirstMin(dNodeVec, 1, 0)]
    /\ index' = Row
    /\ merges' = 0
    /\ pc' = "ahc_merge"
    /\ UNCHANGED <<inVars, svdVars, kmVars, distM, dNodeVec, nodeVec, finVars>>

\* the sums of one choice from each set of the sequence
RECURSIVE SumChoices(_)
SumChoices(sets) ==
    IF sets = <<>> THEN {0}
    ELSE { a + b : a \in Head(sets), b \in SumChoices(Tail(sets)) }

\* getDistAtNodes (lines 1156-1177): the loops read reduced_dist_matrix(i, j)
\* at the loop counters i < m, j < n.  value is one variable shared by the
\* threads of the parallel loop over i: with several threads an addition may
\* read what another thread's iteration stored.
getDistAtNodes(firstList, secondList) ==
    LET m == Len(firstList)
        n == Len(secondList)
        own(i)    == { distM[i, j] : j \in 0..(n - 1) }
        others(i) == { distM[k, j] : k \in (0..(m - 1)) \ {i}, j \in 0..(n - 1) }
        terms == [t \in 1..(m * n) |->
                     LET i == (t - 1) \div n
                         j == (t - 1) % n
                     IN IF openmp THEN {distM[i, j]} \cup others(i) ELSE {distM[i, j]}]
    IN { Norm(<<r, m * n>>) : r \in SumChoices(terms) }

Perms(S) == { f \in [1..Cardinality(S) -> S] : \A a, b \in DOMAIN f : a # b => f[a] # f[b] }

\* the relevance test with only the first ids compared
Relevant_FirstOnly(d) == d.first = poped.first \/ d.first = poped.second

\* a pair that mentions one of the two merged nodes (line 1092)
Relevant(d) ==
    \/ d.first = poped.first \/ d.first = poped.second
    \/ d.second = poped.first \/ d.second = poped.second

RECURSIVE Carried(_)
Carried(vec) ==
    IF vec = <<>> THEN <<>>
    ELSE IF Relevant(Head(vec)) THEN Carried(Tail(vec))
    ELSE <<Head(vec)>> \o Carried(Tail(vec))

\* newNode.element (lines 1062-1068)
MergedElement == nodeMap[poped.first] \o nodeMap[poped.second]

\* one iteration of the do-loop (lines 1059-1127); order is the order in which
\* the hash map hands out the live nodes
hierarchicalMerging_Merge ==
    /\ pc = "ahc_merge"
    /\ LET live    == ((DOMAIN nodeMap) \ {poped.first, poped.second}) \cup {index}
           rest    == live \ {index}
           newMap  == [k \in live |-> IF k = index THEN MergedElement ELSE nodeMap[k]]
           currentNumber == Cardinality(live)
       IN \E order \in Perms(rest) :
          \E dist \in { f \in [rest -> UNION { getDistAtNodes(MergedElement, nodeMap[k]) : k \in rest }] :
                          \A k \in rest : f[k] \in getDistAtNodes(MergedElement, nodeMap[k]) } :
             LET tempVec == Carried(dNodeVec) \o
                            [t \in 1..Len(order) |->
                                [first |-> order[t], second |-> index, distance |-> dist[order[t]]]]
                 target  == FirstMin(tempVec, 1, 0)
                 exits   == currentNumber = Cluster
             IN \* tempVec[-1] on an empty vector reads outside any allocation: the
                \* read ends the process at line 1119, before dNodeVec and index are
                \* updated, or leaves garbage in poped
                /\ pc' \in IF target = 0
                              THEN (IF exits THEN {"crashed", "ahc_collect"} ELSE {"crashed", "ub"})
                              ELSE (IF exits THEN {"ahc_collect"} ELSE {"ahc_merge"})
                /\ nodeMap' = newMap
                /\ merges' = merges + 1
                /\ dNodeVec' = IF pc' = "crashed" THEN dNodeVec ELSE tempVec
                /\ poped' = IF pc' = "crashed" THEN poped
                             ELSE IF target = 0 THEN Garbage ELSE tempVec[target]
                /\ index' = IF pc' = "crashed" THEN index ELSE index + 1
    /\ UNCHANGED <<inVars, svdVars, kmVars, distM, nodeVec, finVars>>

\* the order of the final std::sort: by size, then by node id (lines 1143-1144)
SortsBefore(a, b) ==
    \/ Len(a.element) < Len(b.element)
    \/ Len(a.element) = Len(b.element) /\ a.index < b.index

\* nodeVec, cleared containers and the sort (lines 1129-1144)
hierarchicalMerging_Finish ==
    /\ pc = "ahc_collect"
    /\ LET nodes == { [index |-> k, element |-> nodeMap[k]] : k \in DOMAIN nodeMap }
       IN nodeVec' = CHOOSE v \in [1..Cardinality(nodes) -> nodes] :
                        \A a, b \in DOMAIN v : a < b => SortsBefore(v[a], v[b])
    /\ dNodeVec' = <<>>
    /\ nodeMap' = <<>>
    /\ pc' = "ahc_label"
    /\ UNCHANGED <<inVars, svdVars, kmVars, distM, poped, index, merges, finVars>>

RECURSIVE SumRows(_)
SumRows(list) ==
    IF list = <<>> THEN VZero(Dim) ELSE VAdd(data[Head(list)], SumRows(Tail(list)))

\* neighborVec, storage, centroid, recorder of perform_AHC (lines 877-887) as
\* setLabel fills them (lines 1217-1246); clusterCenter holds centroid
setLabel ==
    /\ pc = "ahc_label"
    /\ neighborVec' = [g \in Clusters |-> IF g < Len(nodeVec) THEN nodeVec[g + 1].element ELSE <<>>]
    /\ storage' = [g \in Clusters |-> IF g < Len(nodeVec) THEN Len(nodeVec[g + 1].element) ELSE 0]
    /\ clusterCenter' = [g \in Clusters |->
                            IF g < Len(nodeVec)
                               THEN <<SumRows(nodeVec[g + 1].element), Len(nodeVec[g + 1].element)>>
                               ELSE <<VZero(Dim), 1>>]
    /\ recorder' = [i \in Rows |->
                       (CHOOSE g \in 1..Len(nodeVec) :
                           \E k \in 1..Len(nodeVec[g].element) : nodeVec[g].element[k] = i) - 1]
    /\ nodeVec' = <<>>
    /\ pc' = "finalize"
    /\ UNCHANGED <<inVars, svdVars, centerTemp, todo, moving, before, tag,
                   distM, nodeMap, dNodeVec, poped, index, merges, finVars>>

NextAHC == perform_AHC_setValue \/ hierarchicalMerging_Begin \/ hierarchicalMerging_Merge
              \/ hierarchicalMerging_Finish \/ setLabel

Init == InitSVD \/ InitKM \/ InitAHC

Next == NextSVD \/ NextKM \/ NextAHC

Spec == Init /\ [][Next]_vars

\* the do-while condition as a function of its three inputs: squared norms on
\* both sides of moving = 0.01 and of a relative change of 1 percent, FLT_MIN,
\* and every round number up to the cap
LoopTestValues ==
    { <<0, 1>>, <<1, 10000>>, <<1, 9999>>, <<1, 1>>, <<10100, 10000>>, <<10404, 10000>>,
      <<9604, 10000>>, <<4, 1>> }

\* the state at the end of round tag, in front of the loop condition
InitLoopTest ==
    /\ variant = "KM"
    /\ pc = "looptest"
    /\ data = NoValue
    /\ Cluster = 0
    /\ openmp = TRUE
    /\ clusterCenter = NoValue /\ centerTemp = NoValue /\ storage = NoValue
    /\ neighborVec = NoValue /\ recorder = NoValue /\ todo = {}
    /\ moving \in LoopTestValues
    /\ before \in LoopTestValues
    /\ tag \in 1..MaxRounds
    /\ energy = NoValue /\ svd_i = 0 /\ tempSum = 0 /\ PC_Number = 0 /\ cArrayCols = 0
    /\ idleAhc /\ idleFin

\* the evaluation of the do-while condition (lines 284, 640)
kmeans_LoopTest ==
    /\ pc = "looptest"
    /\ pc' = IF LoopContinues(moving, before, tag) THEN "continues" ELSE "exits"
    /\ UNCHANGED <<inVars, svdVars, kmVars, ahcVars, finVars>>

InitKMRun == InitKM \/ InitLoopTest

NextKMRun == NextKM \/ kmeans_LoopTest

SpecKM == InitKMRun /\ [][NextKMRun]_vars

NextAHCRun == NextAHC \/ Finalize \/ FinalizeAgain

SpecAHC == InitAHC /\ [][NextAHCRun]_vars

\* hierarchicalMerging on up to four rows, where a merge leaves candidate pairs
\* that mention neither merged node; getDistAtNodes run by one thread (which
\* pairs exist does not depend on the distances it returns)
MaxRowPairs   == 4
MaxCoordPairs == 2

PairsDataSets ==
    UNION { [0..(r - 1) -> { <<x>> : x \in 0..MaxCoordPairs }] : r \in 2..MaxRowPairs }

InitAHCPairs ==
    /\ variant = "AHC"
    /\ pc = "ahc_setvalue"
    /\ data \in PairsDataSets
    /\ Cluster \in 1..Row
    /\ openmp = FALSE
    /\ idleKm /\ idleAhc
    /\ group = [i \in Rows |-> 0]
    /\ totalNum = [i \in Rows |-> 0]
    /\ valueInitFin
    /\ energy = NoValue /\ svd_i = 0 /\ tempSum = 0 /\ PC_Number = 0 /\ cArrayCols = 0

SpecAHCPairs == InitAHCPairs /\ [][NextAHC]_vars

(***************************************************************************)
(* The six-point example, run by one thread                                *)
(***************************************************************************)
ExampleData ==
    [i \in 0..5 |-> CASE i = 0 -> <<0, 0>>   [] i = 1 -> <<0, 1>>   [] i = 2 -> <<1, 0>>
                      [] i = 3 -> <<10, 10>> [] i = 4 -> <<10, 11>> [] i = 5 -> <<11, 10>>]

InitExampleKM ==
    /\ variant = "KM"
    /\ pc = "reset"
    /\ data = ExampleData
    /\ Cluster = 2
    /\ openmp = FALSE
    /\ \E a, b \in Rows :
          /\ a # b
          /\ clusterCenter = [c \in Clusters |-> IF c = 0 THEN <<data[a], 1>> ELSE <<data[b], 1>>]
    /\ centerTemp = [c \in Clusters |-> VZero(Dim)]
    /\ storage = [c \in Clusters |-> 0]
    /\ neighborVec = [c \in Clusters |-> <<>>]
    /\ recorder = [i \in Rows |-> 0]
    /\ todo = {}
    /\ moving = InitialMoving
    /\ before = InitialMoving
    /\ tag = 0
    /\ group = [i \in Rows |-> 0]
    /\ totalNum = [i \in Rows |-> 0]
    /\ valueInitFin
    /\ energy = NoValue /\ svd_i = 0 /\ tempSum = 0 /\ PC_Number = 0 /\ cArrayCols = 0
    /\ idleAhc

InitExampleAHC ==
    /\ variant = "AHC"
    /\ pc = "ahc_setvalue"
    /\ data = ExampleData
    /\ Cluster = 2
    /\ openmp = FALSE
    /\ idleKm /\ idleAhc
    /\ group = [i \in Rows |-> 0]
    /\ totalNum = [i \in Rows |-> 0]
    /\ valueInitFin
    /\ energy = NoValue /\ svd_i = 0 /\ tempSum = 0 /\ PC_Number = 0 /\ cArrayCols = 0

InitExample == InitExampleKM \/ InitExampleAHC

NextExample == NextKM \/ NextAHC

SpecExample == InitExample /\ [][NextExample]_vars

(***************************************************************************)
(* Properties                                                              *)
(***************************************************************************)
Occurrences(list, i) == Cardinality({ k \in 1..Len(list) : list[k] = i })

\* the member lists of m (a function to lists) partition the row indices
ListsPartition(m) ==
    \A i \in Rows :
        /\ \E c \in DOMAIN m : Occurrences(m[c], i) = 1
        /\ \A c, d \in DOMAIN m :
               (Occurrences(m[c], i) > 0 /\ Occurrences(m[d], i) > 0) => c = d

AfterAssignmentRound ==
    /\ variant = "KM"
    /\ \/ pc = "assign" /\ todo = {}
       \/ pc = "reset" /\ tag >= 1
       \/ pc \in {"finalize", "done"}

DuringMerging == variant = "AHC" /\ pc \in {"ahc_merge", "ahc_collect", "crashed", "ub"}

\* C1: after every k-means assignment round and at loop exit each row index is
\* in exactly one neighborVec list, recorder names that list and the storage
\* counters sum to Row; during AHC merging the element lists of the live nodes
\* partition the row indices, and so do the member lists setLabel builds.
C1_Partition ==
    /\ AfterAssignmentRound =>
          /\ ListsPartition(neighborVec)
          /\ \A i \in Rows : recorder[i] \in Clusters
                             /\ Occurrences(neighborVec[recorder[i]], i) = 1
          /\ SumSeq([k \in 1..Cluster |-> storage[k - 1]]) = Row
    /\ DuringMerging => ListsPartition(nodeMap)
    /\ (variant = "AHC" /\ pc \in {"finalize", "done"}) =>
          /\ ListsPartition(neighborVec)
          /\ \A i \in Rows : Occurrences(neighborVec[recorder[i]], i) = 1

\* a second round of k-means has assigned every row, to two non-empty clusters
C1_Reached ==
    /\ variant = "KM" /\ pc = "assign" /\ todo = {} /\ tag = 1
    /\ Row = 3
    /\ \A c \in Clusters : storage[c] > 0

\* the three exit triggers as the specification words them, on squared norms:
\* |moving - before| / before < 0.01, round 20, moving <= 0.01
RelativeChangeBelow1Percent ==
    IF IsFltMin(before) THEN IsFltMin(moving)
    ELSE /\ ~IsFltMin(moving)
         /\ MulLt(before[1] * moving[2], 9801, moving[1] * before[2], 10000)
         /\ MulLt(moving[1] * before[2], 10000, before[1] * moving[2], 10201)

MovingAtMostSmall == ~MulLt(moving[2], 1, moving[1], 10000)

ExitTrigger == RelativeChangeBelow1Percent \/ tag = 20 \/ MovingAtMostSmall

\* C4: the k-means loop runs at least 1 and at most 20 rounds, moving is never
\* negative, the first round compares with 1000, and the loop goes on after a
\* round exactly when none of the three triggers holds (in the runs, and for
\* the loop condition applied to any displacements at any round up to 20).
C4_ConvergenceBound ==
    variant = "KM" =>
        /\ tag \in 0..20
        /\ moving[1] >= 0 /\ moving[2] > 0
        /\ (tag = 1 /\ pc \in {"reset", "finalize"}) => before = <<1000000, 1>>
        /\ (pc = "reset" /\ tag >= 1) => ~ExitTrigger
        /\ pc \in {"finalize", "done"} => (tag >= 1 /\ ExitTrigger)
        /\ pc = "continues" => ~ExitTrigger
        /\ pc = "exits" => ExitTrigger

\* the loop went on after a round with a nonzero displacement and then ended
C4_Reached ==
    /\ variant = "KM" /\ pc = "finalize" /\ tag >= 2
    /\ IsFltMin(moving) /\ ~IsFltMin(before)

RawClusterOf(i) == { j \in Rows : recorder[j] = recorder[i] }

\* C7: after finalization the labels are exactly 0..g-1 for g non-empty raw
\* clusters, two rows share a label exactly when they share a raw cluster, a
\* smaller cluster has a smaller label, an empty raw cluster has no label, and
\* totalNum is the size of the row's own cluster.
C7_RelabelBySize ==
    pc = "done" =>
        LET g == Cardinality({ recorder[i] : i \in Rows }) IN
        /\ { group[i] : i \in Rows } = 0..(g - 1)
        /\ \A i, j \in Rows : (group[i] = group[j]) <=> (recorder[i] = recorder[j])
        /\ \A i, j \in Rows :
               Cardinality(RawClusterOf(i)) < Cardinality(RawClusterOf(j)) => group[i] < group[j]
        /\ \A c \in Clusters :
               (\A i \in Rows : recorder[i] # c) =>
                   /\ increasingOrder[c] \notin { group[i] : i \in Rows }
                   /\ \A k \in 1..Len(closest) : closest[k][2] # increasingOrder[c]
        /\ \A i \in Rows : totalNum[i] = Cardinality(RawClusterOf(i))

\* raw cluster 0 is the larger of two non-empty clusters, so the relabeling
\* exchanges the two ids
C7_Reached ==
    /\ pc = "done" /\ Cluster = 2
    /\ storage[0] = 2 /\ storage[1] = 1
    /\ increasingOrder[0] = 1 /\ increasingOrder[1] = 0

\* the mean of reduced_dist_matrix(a, b) over the members a, b of two lists
BruteForceMean(listA, listB) ==
    <<SumSeq([t \in 1..(Len(listA) * Len(listB)) |->
                distM[listA[((t - 1) \div Len(listB)) + 1], listB[((t - 1) % Len(listB)) + 1]]]),
      Len(listA) * Len(listB)>>

\* C2: after a merge (even with getDistAtNodes run by one thread) the distance
\* stored in each new pair (X, newNode) is the mean of the distance matrix over
\* the members of newNode and the members of X.
C2_LinkageIsMean ==
    (variant = "AHC" /\ ~openmp /\ pc \in {"ahc_merge", "ahc_collect"} /\ merges >= 1) =>
        \A k \in 1..Len(dNodeVec) :
            dNodeVec[k].second = index - 1 =>
                FracEq(dNodeVec[k].distance,
                       BruteForceMean(nodeMap[index - 1], nodeMap[dNodeVec[k].first]))

\* C5: on the six points with k = 2, either path ends with the groups {0,1,2}
\* and {3,4,5}, the closest representatives are the members nearest to the two
\* centroids (rows 0 and 3), every cluster size is 3 and the balanced entropy is 1.
C5_ExampleGroups ==
    (data = ExampleData /\ Cluster = 2 /\ pc = "done" /\ runs = 1) =>
        /\ { RawClusterOf(i) : i \in Rows } = { {0, 1, 2}, {3, 4, 5} }
        /\ { closest[k][1] : k \in 1..Len(closest) } = {0, 3}
        /\ \A i \in Rows : totalNum[i] = 3
        /\ entropy = <<"num", 1, 1>>

\* C5 for the k-means path alone
C5_ExampleGroupsKMeans == variant = "KM" => C5_ExampleGroups

\* C6: for 1 <= targetClusters < Row, hierarchicalMerging ends, after exactly
\* Row - targetClusters merges, with targetClusters live nodes that partition
\* the rows; merge j creates node Row + j - 1 and removes the two merged nodes.
C6_MergingTerminates ==
    (variant = "AHC" /\ Cluster < Row) =>
        /\ pc \notin {"crashed", "ub"}
        /\ pc = "ahc_merge" =>
              /\ merges < Row - Cluster
              /\ index = Row + merges
              /\ Cardinality(DOMAIN nodeMap) = Row - merges
              /\ merges >= 1 => (index - 1) \in DOMAIN nodeMap
        /\ pc = "ahc_collect" =>
              /\ merges = Row - Cluster
              /\ Cardinality(DOMAIN nodeMap) = Cluster
              /\ index = Row + merges
              /\ ListsPartition(nodeMap)

\* the first member of raw cluster c, in member-list order, at the least and at
\* the greatest distance from the centroid of c
FirstNearest(c) ==
    LET l == neighborVec[c]
        d(k) == DistSqToCenter(clusterCenter[c], data[l[k]])
    IN l[CHOOSE k \in 1..Len(l) :
            /\ \A j \in 1..(k - 1) : FracLt(d(k), d(j))
            /\ \A j \in (k + 1)..Len(l) : ~FracLt(d(j), d(k))]

FirstFurthest(c) ==
    LET l == neighborVec[c]
        d(k) == DistSqToCenter(clusterCenter[c], data[l[k]])
    IN l[CHOOSE k \in 1..Len(l) :
            /\ \A j \in 1..(k - 1) : FracLt(d(j), d(k))
            /\ \A j \in (k + 1)..Len(l) : ~FracLt(d(k), d(j))]

RecordsOf(list, label) == { k \in 1..Len(list) : list[k][2] = label }

\* C8: for every non-empty cluster (a singleton, or one whose members all sit
\* on the centroid, included) one closest and one furthest record carry its
\* relabeled id; the closest index is the first member at minimum distance
\* from the centroid and the furthest index the first member at maximum distance.
C8_Representatives ==
    (variant = "KM" /\ pc = "done" /\ runs = 1) =>
        \A c \in NonEmpty :
            /\ Cardinality(RecordsOf(closest, increasingOrder[c])) = 1
            /\ Cardinality(RecordsOf(furthest, increasingOrder[c])) = 1
            /\ \A k \in RecordsOf(closest, increasingOrder[c]) : closest[k][1] = FirstNearest(c)
            /\ \A k \in RecordsOf(furthest, increasingOrder[c]) : furthest[k][1] = FirstFurthest(c)

\* C9: with exactly one non-empty raw cluster the balanced entropy is 0
C9_EntropyOfOneCluster ==
    (pc = "done" /\ groupNo = 1) => entropy = <<"num", 0, 1>>

\* C10: after the finalization has run twice on one raw assignment, group,
\* closest and furthest are what they were after the first run.
C10_FinalizeIdempotent ==
    runs = 2 => <<group, closest, furthest>> = firstRun

\* the singleton nodes hierarchicalMerging starts from
SingletonNodes == [i \in Rows |-> <<i>>]

\* C11: called with targetClusters = Row, hierarchicalMerging stops at once: no
\* merge, no node created or removed, the Row singleton nodes are what it leaves.
C11_StopsImmediately ==
    (variant = "AHC" /\ Cluster = Row) =>
        /\ pc \notin {"crashed", "ub"}
        /\ merges = 0
        /\ index \in {0, Row}
        /\ pc \in {"ahc_merge", "ahc_collect"} => nodeMap = SingletonNodes

\* a first merge was performed although the Row nodes asked for were there
C11_Reached ==
    /\ variant = "AHC" /\ Cluster = Row /\ Row = 3
    /\ pc = "ahc_merge" /\ merges = 1

\* C12: with every energy 0, PC_Number is 0 or 1 when performSVD sizes cArray.
C12_DegenerateReduction ==
    (pc \in {"svd_size", "svd_done"} /\ varianceSummation = 0) => PC_Number \in {0, 1}

\* the loop ended on all-zero energies without a selection
C12_Reached ==
    /\ pc = "svd_done" /\ energy = <<0, 0>> /\ PC_Number = 2 /\ cArrayCols = 2

\* C18: for 1 <= targetClusters < Row every read poped = dNodeVec[target] or
\* poped = tempVec[target] has 0 <= target < size: the program never reads at
\* target = -1.
C18_TargetInRange ==
    (variant = "AHC" /\ Cluster < Row /\ pc \in {"ahc_merge", "ahc_collect", "crashed", "ub"}) =>
        /\ pc # "crashed"
        /\ poped # Garbage

\* the last merge towards one cluster left no candidate pair
C18_Reached ==
    /\ variant = "AHC" /\ Cluster = 1 /\ Row = 3
    /\ merges = 2 /\ pc = "crashed"

\* the node ids hierarchicalMerging holds: the rows before the singleton nodes
\* are made, the keys of nodeMap afterwards
LiveNodes == IF pc = "ahc_begin" THEN Rows ELSE DOMAIN nodeMap

EntriesFor(a, b) ==
    { k \in 1..Len(dNodeVec) : {dNodeVec[k].first, dNodeVec[k].second} = {a, b} }

\* C13: after setValue and after every completed merge dNodeVec holds exactly
\* one entry for each unordered pair of live node ids and none that mentions a
\* removed node; its length is L*(L-1)/2 for L live nodes.
C13_CandidatePairs ==
    (variant = "AHC" /\ pc \in {"ahc_begin", "ahc_merge", "ahc_collect", "ub"}) =>
        LET L == Cardinality(LiveNodes) IN
        /\ 2 * Len(dNodeVec) = L * (L - 1)
        /\ \A k \in 1..Len(dNodeVec) :
               /\ dNodeVec[k].first \in LiveNodes
               /\ dNodeVec[k].second \in LiveNodes
               /\ dNodeVec[k].first # dNodeVec[k].second
        /\ \A a, b \in LiveNodes : a # b => Cardinality(EntriesFor(a, b)) = 1

\* four rows, one merge done: a pair of two untouched singletons was copied
\* and two pairs with the new node were made
C13_Reached ==
    /\ variant = "AHC" /\ Row = 4 /\ pc = "ahc_merge" /\ merges = 1
    /\ Len(dNodeVec) = 3
    /\ dNodeVec[1].second < Row
    /\ dNodeVec[2].second = Row /\ dNodeVec[3].second = Row

\* the first entry of dNodeVec at the least distance
IsFirstMinimum(k) ==
    /\ \A j \in 1..(k - 1) : FracLt(dNodeVec[k].distance, dNodeVec[j].distance)
    /\ \A j \in (k + 1)..Len(dNodeVec) : ~FracLt(dNodeVec[j].distance, dNodeVec[k].distance)

\* C14: whenever a merge step is about to run, poped is an entry of the
\* candidate vector, at a distance no other entry is below, and the first such
\* entry in the vector's order.
C14_MinimumPair ==
    (variant = "AHC" /\ pc \in {"ahc_merge", "ub"}) =>
        \E k \in 1..Len(dNodeVec) : dNodeVec[k] = poped /\ IsFirstMinimum(k)

\* C14 for the merge steps that follow a read inside the candidate vector
C14_MinimumPairInRange ==
    (variant = "AHC" /\ pc = "ahc_merge") =>
        \E k \in 1..Len(dNodeVec) : dNodeVec[k] = poped /\ IsFirstMinimum(k)

\* the loop goes on with one live node and no candidate pair
C14_Reached ==
    /\ variant = "AHC" /\ Cluster = Row /\ pc = "ub"
    /\ dNodeVec = <<>> /\ poped = Garbage

\* the rows whose recorder entry is c
LabeledWith(c) == { i \in Rows : recorder[i] = c }

\* the sum of the coordinates of a set of rows
RECURSIVE SumOfRows(_)
SumOfRows(S) ==
    IF S = {} THEN VZero(Dim)
    ELSE LET i == CHOOSE x \in S : TRUE IN VAdd(data[i], SumOfRows(S \ {i}))

\* C15: when the assignment region ends, whatever the order in which the
\* threads entered the critical section, storage[c] counts the rows labeled c,
\* neighborVec[c] holds exactly those rows once each and centerTemp row c is the
\* sum of their coordinates.
C15_SynchronizedAccumulation ==
    (variant = "KM" /\ pc = "assign" /\ todo = {}) =>
        \A c \in Clusters :
            /\ storage[c] = Cardinality(LabeledWith(c))
            /\ Len(neighborVec[c]) = storage[c]
            /\ { neighborVec[c][k] : k \in 1..Len(neighborVec[c]) } = LabeledWith(c)
            /\ centerTemp[c] = SumOfRows(LabeledWith(c))

\* a region whose threads entered the critical section out of index order, two
\* of them for the same cluster
C15_Reached ==
    /\ variant = "KM" /\ pc = "assign" /\ todo = {}
    /\ \E c \in Clusters :
          /\ storage[c] >= 2
          /\ neighborVec[c][1] > neighborVec[c][2]
          /\ centerTemp[c] # VZero(Dim)

\* the clusters that received a point in the round
Moved == { c \in Clusters : storage[c] > 0 }

\* the step that runs the displacement loop
DisplacementStep == variant = "KM" /\ pc = "assign" /\ todo = {} /\ pc' # "assign"

\* C16: whatever the interleaving of the threads of the displacement loop,
\* moving after the loop is the largest distance between the new and the old
\* centroid over the clusters that received a point.
C16_MaxReduction ==
    [][DisplacementStep => FracEq(moving', MaxDisplacement(Moved))]_vars

\* round 2 on rows 0 and 1: centroid 0 moved from 1/2 to 1, centroid 1 stayed,
\* and moving was left at FLT_MIN
C16_Reached ==
    /\ variant = "KM" /\ pc = "finalize" /\ tag = 2
    /\ data = [i \in 0..1 |-> <<i>>]
    /\ neighborVec = [c \in 0..1 |-> <<1 - c>>]
    /\ before = <<1, 4>>
    /\ clusterCenter[0] = <<<<1>>, 1>>
    /\ IsFltMin(moving)

\* the arithmetic mean of the rows labeled c, as a centroid <<S, n>>
MeanOfLabeled(c) == <<SumOfRows(LabeledWith(c)), Cardinality(LabeledWith(c))>>

\* moving is FLT_MIN or the displacement of a cluster that received a point
MovingFromMoved ==
    \/ IsFltMin(moving')
    \/ \E c \in Moved : FracEq(moving', Displacement(c))

\* C17: in every round a centroid whose cluster received no point keeps its
\* coordinates and adds nothing to the displacement, a centroid with points
\* becomes their arithmetic mean; at loop exit the centroid of every non-empty
\* cluster is the mean of the rows labeled with it.
C17_EmptyClusterFrame ==
    /\ [][DisplacementStep =>
            /\ \A c \in Clusters :
                  clusterCenter'[c] = IF storage[c] = 0 THEN clusterCenter[c]
                                                        ELSE MeanOfLabeled(c)
            /\ MovingFromMoved]_vars
    /\ []((variant = "KM" /\ pc \in {"finalize", "done"}) =>
             \A c \in NonEmpty : clusterCenter[c] = MeanOfLabeled(c))

\* after round 1 cluster 1 is empty and its centroid is still its seed at 1,
\* cluster 0 holds three rows and its centroid is their mean
C17_Reached ==
    /\ variant = "KM" /\ pc = "reset" /\ tag = 1 /\ Cluster = 2 /\ Row = 3
    /\ storage[1] = 0 /\ clusterCenter[1] = <<<<1>>, 1>>
    /\ storage[0] = 3 /\ clusterCenter[0] = <<<<1>>, 3>>

\* the set S as a list in increasing order
SortedSeq(S) ==
    CHOOSE f \in [1..Cardinality(S) -> S] : \A a, b \in 1..Cardinality(S) : a < b => f[a] < f[b]

\* the member lists of the run whose threads enter the critical section in
\* index order
IndexOrderLists == [c \in Clusters |-> SortedSeq(LabeledWith(c))]

\* what the finalization emits in that run, from empty containers
IndexOrderEmitted == RepresentativesIn(IndexOrderLists, 0, <<<<>>, <<>>, 0, 0>>)

\* C19: the outputs of a k-means run are those of the run with the same data,
\* seeds and centroids whose threads enter the critical section in index order:
\* the same labels, the same cluster sizes, the same closest and furthest index
\* for every cluster.
C19_ScheduleDeterminism ==
    (variant = "KM" /\ pc = "done" /\ runs = 1) =>
        /\ group = [i \in Rows |-> IncreasingOrderOf(recorder[i])]
        /\ totalNum = [i \in Rows |-> Cardinality(LabeledWith(recorder[i]))]
        /\ closest = IndexOrderEmitted[1]
        /\ furthest = IndexOrderEmitted[2]

\* C19 for the labels and the sizes alone
C19_LabelsAndSizes ==
    (variant = "KM" /\ pc = "done" /\ runs = 1) =>
        /\ group = [i \in Rows |-> IncreasingOrderOf(recorder[i])]
        /\ totalNum = [i \in Rows |-> Cardinality(LabeledWith(recorder[i]))]

\* rows 0 and 1 in one cluster, both at the same distance from its centroid;
\* row 1 entered the critical section first and is reported as the closest
C19_Reached ==
    /\ variant = "KM" /\ pc = "done" /\ runs = 1 /\ Cluster = 1
    /\ data = [i \in 0..1 |-> <<i>>]
    /\ neighborVec[0] = <<1, 0>>
    /\ closest = << <<1, 0>> >>
====
